---- MODULE Spec2Model ----
(***************************************************************************)
(* A model of package lexer (bmatsuo/go-lexer, the list-based revision of  *)
(* lexer.go): the scanning cursor (input, start, pos, width, last), the    *)
(* token queue (items) and the state-machine driver (state, Next).         *)
(*                                                                         *)
(* Go strings are sequences of bytes (0..255); Go's 0-based offset p is    *)
(* the 1-based index p+1.  The caller's state functions are arbitrary: an  *)
(* invocation is any sequence of scanner calls followed by the return of   *)
(* the next state; a scan makes at most MaxOps scanner calls in all.       *)
(***************************************************************************)
EXTENDS Integers, Sequences, FiniteSets, TLC

\* ------------------------------------------------------------- bounds
MaxLen == 2          \* longest input drawn from Bytes
MaxTokens == 2       \* tokens enqueued in one scan
MaxOps == 3          \* scanner calls in one scan
MaxRuns == 2         \* cap of the per-Next invocation counter
ScanOps == 4         \* scanner calls in one scan of ScanSpec
LiveMaxLen == 1      \* longest input of the scans checked for termination

\* ---------------------------------------------------------- constants
EOF == 4
RuneError == 65533
ItemEOF == 65535
ItemError == 65534

Nil == "nil"
StateFns == {"lexA", "lexB"}

\* The bytes inputs are made of: EOT (0x04), '.', and the two bytes of
\* U+00E9 (0xC3 0xA9), each of which alone is malformed UTF-8.
Bytes == {4, 46, 169, 195}
\* The encoding of U+FFFD itself: a well-formed rune equal to RuneError.
ReplacementChar == <<239, 191, 189>>
Inputs == (UNION {[1..n -> Bytes] : n \in 0..MaxLen}) \cup {ReplacementChar}

\* Caller-supplied arguments.
Valids == {<<46>>, <<4, 195, 169>>, ReplacementChar}
Literals == {<<46>>, <<195>>, <<46, 4>>}
Tables == {<<[Lo |-> 46, Hi |-> 46]>>, <<[Lo |-> 0, Hi |-> 31], [Lo |-> 128, Hi |-> 65533]>>}
Kinds == {0, ItemEOF}
FormatEOF == <<101, 111, 102>>                 \* "eof"
FormatRune == <<98, 97, 100, 32, 37, 113>>     \* "bad %q"

VARIABLES
    input, start, pos, width, last, state, items,   \* the Lexer struct
    pc,          \* "idle" | "loop" (in Next) | "fn" (in a state function) | "panic" | "hang"
    fuel,        \* scanner calls the state functions may still make
    runs,        \* state functions invoked by the current Next call (capped)
    op, ret, pre,\* the last scanner call, its result, the Lexer before it
    emitted,     \* every token ever enqueued, in call order
    delivered,   \* every token Next returned from the queue, in order
    returned,    \* the last two results of Next
    bk           \* "clear" | "backed" (Backup called since the last Advance or
                 \* Peek) | "broken" (Backup was called twice in a row)
\* (With two callers, in ConcSpec, pc and ret hold one value per caller.)

vars == <<input, start, pos, width, last, state, items, pc, fuel, runs,
          op, ret, pre, emitted, delivered, returned, bk>>

\* ------------------------------------------------------ library: utf8
IsCont(b) == b >= 128 /\ b <= 191

\* utf8.DecodeRuneInString: <<rune, width>>.
DecodeRuneInString(s) ==
    IF Len(s) = 0 THEN <<RuneError, 0>>
    ELSE LET b0 == s[1] IN
      IF b0 < 128 THEN <<b0, 1>>
      ELSE IF b0 >= 194 /\ b0 <= 223 THEN
             IF Len(s) >= 2 /\ IsCont(s[2])
             THEN <<(b0 % 32) * 64 + (s[2] % 64), 2>>
             ELSE <<RuneError, 1>>
      ELSE IF b0 >= 224 /\ b0 <= 239 THEN
             LET lo == IF b0 = 224 THEN 160 ELSE 128
                 hi == IF b0 = 237 THEN 159 ELSE 191
             IN IF Len(s) >= 3 /\ s[2] >= lo /\ s[2] <= hi /\ IsCont(s[3])
                THEN <<(b0 % 16) * 4096 + (s[2] % 64) * 64 + (s[3] % 64), 3>>
                ELSE <<RuneError, 1>>
      ELSE IF b0 >= 240 /\ b0 <= 244 THEN
             LET lo == IF b0 = 240 THEN 144 ELSE 128
                 hi == IF b0 = 244 THEN 143 ELSE 191
             IN IF Len(s) >= 4 /\ s[2] >= lo /\ s[2] <= hi /\ IsCont(s[3]) /\ IsCont(s[4])
                THEN <<(b0 % 8) * 262144 + (s[2] % 64) * 4096 + (s[3] % 64) * 64 + (s[4] % 64), 4>>
                ELSE <<RuneError, 1>>
      ELSE <<RuneError, 1>>

\* utf8.EncodeRune for runes below 0x10000.
EncodeRune(r) ==
    IF r < 128 THEN <<r>>
    ELSE IF r < 2048 THEN <<192 + (r \div 64), 128 + (r % 64)>>
    ELSE <<224 + (r \div 4096), 128 + ((r \div 64) % 64), 128 + (r % 64)>>

\* The runes a range loop over s yields (an invalid byte yields RuneError).
RECURSIVE Runes(_)
Runes(s) ==
    IF s = <<>> THEN {}
    ELSE LET d == DecodeRuneInString(s)
         IN {d[1]} \cup Runes(SubSeq(s, d[2] + 1, Len(s)))

\* strings.IndexRune(valid, r) >= 0
IndexRune(valid, r) == r \in Runes(valid)

\* unicode.Is(tab, r)
UnicodeIs(tab, r) == \E i \in 1..Len(tab) : tab[i].Lo <= r /\ r <= tab[i].Hi

\* strings.HasPrefix(s, prefix)
HasPrefix(s, prefix) ==
    Len(s) >= Len(prefix) /\ SubSeq(s, 1, Len(prefix)) = prefix

\* ------------------------------------------------------- library: fmt
HexDigit(d) == IF d < 10 THEN 48 + d ELSE 87 + d

\* The %q form of a rune: 'c', or '\xNN' for a control character.
QuoteRune(r) ==
    IF r < 32 \/ r = 127
    THEN <<39, 92, 120, HexDigit(r \div 16), HexDigit(r % 16), 39>>
    ELSE <<39>> \o EncodeRune(r) \o <<39>>

\* fmt.Sprintf for formats whose only verb is %q with a rune operand.
RECURSIVE Sprintf(_, _)
Sprintf(format, args) ==
    IF format = <<>> THEN <<>>
    ELSE IF Len(format) >= 2 /\ format[1] = 37 /\ format[2] = 113 /\ args # <<>>
         THEN QuoteRune(args[1]) \o Sprintf(SubSeq(format, 3, Len(format)), Tail(args))
         ELSE <<format[1]>> \o Sprintf(Tail(format), args)

\* ------------------------------------------------------------- cursor
\* The scanner fields of the Lexer as a record.
L == [start |-> start, pos |-> pos, width |-> width, last |-> last]

\* input[from:to]; Go panics unless 0 <= from <= to <= len(input).
SliceOK(from, to) == 0 <= from /\ from <= to /\ to <= Len(input)
Slice(from, to) == SubSeq(input, from + 1, to)

\* What a call returned, by the names of the results: (c, width) of Advance
\* and Peek, ok of Accept, AcceptRange and AcceptString, n of AcceptRun and
\* AcceptRunRange, the StateFn of Errorf.  A result a call does not have
\* keeps its zero value.
NoRet == [c |-> 0, width |-> 0, ok |-> FALSE, n |-> 0, fn |-> "none"]
RuneRet(d) == [NoRet EXCEPT !.c = d[1], !.width = d[2]]
OkRet(ok) == [NoRet EXCEPT !.ok = ok]
CountRet(n) == [NoRet EXCEPT !.n = n]
FnRet(fn) == [NoRet EXCEPT !.fn = fn]

\* The result of a scanner call: the Lexer after it, what it returned,
\* and whether it panicked or never returns.
Result(l, r) == [l |-> l, ret |-> r, panic |-> FALSE, hang |-> FALSE]
Panic(l) == [l |-> l, ret |-> NoRet, panic |-> TRUE, hang |-> FALSE]
Hang(l) == [l |-> l, ret |-> NoRet, panic |-> FALSE, hang |-> TRUE]

\* Advance as the ring-buffer revision has it: a malformed byte is stepped
\* over like a rune.
DoAdvanceNoInvalid(l) ==
    IF l.pos >= Len(input)
    THEN Result([l EXCEPT !.width = 0], RuneRet(<<EOF, 0>>))
    ELSE IF l.pos < 0 THEN Panic(l)
    ELSE LET d == DecodeRuneInString(Slice(l.pos, Len(input)))
         IN Result([l EXCEPT !.last = d[1], !.width = d[2], !.pos = l.pos + d[2]], RuneRet(d))

\* Advance that forgets to clear width at the end of the input.
DoAdvanceStaleWidth(l) ==
    IF l.pos >= Len(input)
    THEN Result(l, RuneRet(<<EOF, l.width>>))
    ELSE IF l.pos < 0 THEN Panic(l)
    ELSE LET d == DecodeRuneInString(Slice(l.pos, Len(input)))
             l1 == [l EXCEPT !.last = d[1], !.width = d[2]]
         IN IF d[1] = RuneError /\ d[2] = 1
            THEN Result(l1, RuneRet(d))
            ELSE Result([l1 EXCEPT !.pos = l.pos + d[2]], RuneRet(d))

DoAdvance(l) ==
    IF l.pos >= Len(input)
    THEN Result([l EXCEPT !.width = 0], RuneRet(<<EOF, 0>>))
    ELSE IF l.pos < 0 THEN Panic(l)
    ELSE LET d == DecodeRuneInString(Slice(l.pos, Len(input)))
             l1 == [l EXCEPT !.last = d[1], !.width = d[2]]
         IN IF d[1] = RuneError /\ d[2] = 1
            THEN Result(l1, RuneRet(d))
            ELSE Result([l1 EXCEPT !.pos = l.pos + d[2]], RuneRet(d))

\* Backup that steps back one byte whatever the width of the last rune.
DoBackupOneByte(l) == Result([l EXCEPT !.pos = l.pos - 1], NoRet)

DoBackup(l) == Result([l EXCEPT !.pos = l.pos - l.width], NoRet)

\* The deferred Backup runs whether or not Advance panics.
DoPeek(l) ==
    LET a == DoAdvance(l)
        b == DoBackup(a.l)
    IN [a EXCEPT !.l = b.l]

DoIgnore(l) == Result([l EXCEPT !.start = l.pos], NoRet)

DoAccept(l, valid) ==
    LET a == DoAdvance(l)
    IN IF a.panic THEN a
       ELSE LET ok == IndexRune(valid, a.ret.c)
            IN IF ~ok THEN Result(DoBackup(a.l).l, OkRet(FALSE))
                      ELSE Result(a.l, OkRet(TRUE))

DoAcceptRange(l, tab) ==
    LET a == DoAdvance(l)
    IN IF a.panic THEN a
       ELSE LET ok == UnicodeIs(tab, a.ret.c)
            IN IF ~ok THEN Result(DoBackup(a.l).l, OkRet(FALSE))
                      ELSE Result(a.l, OkRet(TRUE))

\* The loop of AcceptRun.  An Accept that succeeds and leaves the Lexer as
\* it found it succeeds again for ever: the loop never ends.
RECURSIVE AcceptLoop(_, _, _)
AcceptLoop(l, valid, n) ==
    LET a == DoAccept(l, valid)
    IN IF a.panic THEN a
       ELSE IF ~a.ret.ok THEN Result(a.l, CountRet(n))
       ELSE IF a.l = l THEN Hang(a.l)
       ELSE AcceptLoop(a.l, valid, n + 1)

DoAcceptRun(l, valid) == AcceptLoop(l, valid, 0)

RECURSIVE AcceptRangeLoop(_, _, _)
AcceptRangeLoop(l, tab, n) ==
    LET a == DoAcceptRange(l, tab)
    IN IF a.panic THEN a
       ELSE IF ~a.ret.ok THEN Result(a.l, CountRet(n))
       ELSE IF a.l = l THEN Hang(a.l)
       ELSE AcceptRangeLoop(a.l, tab, n + 1)

DoAcceptRunRange(l, tab) == AcceptRangeLoop(l, tab, 0)

\* AcceptString with the arguments of HasPrefix the wrong way round.
DoAcceptStringSwapped(l, s) ==
    IF l.pos < 0 THEN Panic(l)
    ELSE IF HasPrefix(s, Slice(l.pos, Len(input)))
         THEN Result([l EXCEPT !.pos = l.pos + Len(s)], OkRet(TRUE))
         ELSE Result(l, OkRet(FALSE))

\* AcceptString that records what it read, as Advance does.
DoAcceptStringSetsWidth(l, s) ==
    IF l.pos < 0 THEN Panic(l)
    ELSE IF HasPrefix(Slice(l.pos, Len(input)), s)
         THEN Result([l EXCEPT !.pos = l.pos + Len(s), !.width = Len(s)], OkRet(TRUE))
         ELSE Result(l, OkRet(FALSE))

DoAcceptString(l, s) ==
    IF l.pos < 0 THEN Panic(l)
    ELSE IF HasPrefix(Slice(l.pos, Len(input)), s)
         THEN Result([l EXCEPT !.pos = l.pos + Len(s)], OkRet(TRUE))
         ELSE Result(l, OkRet(FALSE))

\* -------------------------------------------------------------- queue
Item(t, p, v) == [Type |-> t, Pos |-> p, Value |-> v]

enqueue(q, i) == Append(q, i)

\* A queue that hands out its newest token first.
dequeueBack(q) ==
    IF q = <<>> THEN <<<<>>, q>> ELSE <<<<q[Len(q)]>>, SubSeq(q, 1, Len(q) - 1)>>

\* <<head, rest>>, head = <<>> standing for nil
dequeue(q) == IF q = <<>> THEN <<<<>>, q>> ELSE <<<<Head(q)>>, Tail(q)>>

\* ------------------------------------------------------------ actions
Snapshot ==
    [start |-> start, pos |-> pos, width |-> width, last |-> last,
     state |-> state, items |-> items]

InFn == pc = "fn" /\ fuel > 0

\* A scanner call that touches only the cursor.
Scan(name, arg, res) ==
    /\ start' = res.l.start
    /\ pos' = res.l.pos
    /\ width' = res.l.width
    /\ last' = res.l.last
    /\ pc' = IF res.panic THEN "panic" ELSE IF res.hang THEN "hang" ELSE "fn"
    /\ fuel' = fuel - 1
    /\ op' = [name |-> name, arg |-> arg]
    /\ ret' = res.ret
    /\ pre' = Snapshot
    /\ bk' = CASE name = "Backup" -> (IF bk = "clear" THEN "backed" ELSE "broken")
             [] name \in {"Advance", "Peek"} -> (IF bk = "broken" THEN bk ELSE "clear")
             [] OTHER -> bk
    /\ UNCHANGED <<input, state, items, runs, emitted, delivered, returned>>

Advance == InFn /\ Scan("Advance", <<>>, DoAdvance(L))

\* Backup takes no argument: arg records the call it comes directly after.
Backup == InFn /\ Scan("Backup", op.name, DoBackup(L))

Peek == InFn /\ Scan("Peek", <<>>, DoPeek(L))

Ignore == InFn /\ Scan("Ignore", <<>>, DoIgnore(L))

Accept == InFn /\ \E valid \in Valids : Scan("Accept", valid, DoAccept(L, valid))

AcceptRange == InFn /\ \E tab \in Tables : Scan("AcceptRange", tab, DoAcceptRange(L, tab))

AcceptRun == InFn /\ \E valid \in Valids : Scan("AcceptRun", valid, DoAcceptRun(L, valid))

AcceptRunRange ==
    InFn /\ \E tab \in Tables : Scan("AcceptRunRange", tab, DoAcceptRunRange(L, tab))

AcceptString == InFn /\ \E s \in Literals : Scan("AcceptString", s, DoAcceptString(L, s))

\* A call that enqueues: the Lexer's queue after it, or a panic.
Push(name, arg, ok, item, newStart, r) ==
    /\ pc' = IF ok THEN "fn" ELSE "panic"
    /\ items' = IF ok THEN enqueue(items, item) ELSE items
    /\ emitted' = IF ok THEN Append(emitted, item) ELSE emitted
    /\ start' = IF ok THEN newStart ELSE start
    /\ fuel' = fuel - 1
    /\ op' = [name |-> name, arg |-> arg]
    /\ ret' = r
    /\ pre' = Snapshot
    /\ UNCHANGED <<input, pos, width, last, state, runs, delivered, returned, bk>>

\* An item stamped with the read position instead of the lexeme's start.
EmitItemAtPos(t) == Item(t, pos, Slice(start, pos))

EmitItem(t) == Item(t, start, Slice(start, pos))

\* Emit that forgets l.start = l.pos.
EmitKeepsStart ==
    /\ InFn /\ Len(emitted) < MaxTokens
    /\ \E t \in Kinds :
         Push("Emit", t, SliceOK(start, pos), EmitItem(t), start, NoRet)

Emit ==
    /\ InFn /\ Len(emitted) < MaxTokens
    /\ \E t \in Kinds :
         Push("Emit", t, SliceOK(start, pos), EmitItem(t), pos, NoRet)

Formats == {[format |-> FormatEOF, args |-> <<>>],
            [format |-> FormatRune, args |-> <<last>>]}

\* An error item that carries the format, not the formatted message.
ErrorItemRaw(m) == Item(ItemError, start, m.format)

\* An error item stamped with the read position.
ErrorItemAtPos(m) == Item(ItemError, pos, Sprintf(m.format, m.args))

ErrorItem(m) == Item(ItemError, start, Sprintf(m.format, m.args))

Errorf ==
    /\ InFn /\ Len(emitted) < MaxTokens
    /\ \E m \in Formats :
         Push("Errorf", m, TRUE, ErrorItem(m), start, FnRet(Nil))

\* The state function returns its next state.  "errorf" tells that the call
\* it made last was Errorf: return l.Errorf(...) is an Errorf followed by
\* the Return of its result.
NoCall == [start |-> 0, pos |-> 0, width |-> 0, last |-> 0,
           state |-> Nil, items |-> <<>>]

Return ==
    /\ pc = "fn"
    /\ \E next \in StateFns \cup {Nil} :
         /\ state' = next
         /\ op' = [name |-> "Return", arg |-> next, errorf |-> (op.name = "Errorf")]
    /\ pc' = "loop"
    /\ ret' = NoRet
    /\ pre' = NoCall
    /\ UNCHANGED <<input, start, pos, width, last, items, fuel, runs,
                   emitted, delivered, returned, bk>>

\* ---- Next: the parser's call, one action per pass through its loop.
Record(item, src) == [item |-> item, src |-> src, runs |-> runs]
Note(r) == IF Len(returned) < 2 THEN Append(returned, r) ELSE <<returned[2], r>>

CallNext ==
    /\ pc = "idle"
    /\ pc' = "loop"
    /\ runs' = 0
    /\ UNCHANGED <<input, start, pos, width, last, state, items, fuel,
                   op, ret, pre, emitted, delivered, returned, bk>>

NextDequeue ==
    /\ pc = "loop"
    /\ dequeue(items)[1] # <<>>
    /\ items' = dequeue(items)[2]
    /\ delivered' = Append(delivered, dequeue(items)[1][1])
    /\ returned' = Note(Record(dequeue(items)[1][1], "queue"))
    /\ pc' = "idle"
    /\ UNCHANGED <<input, start, pos, width, last, state, fuel, runs,
                   op, ret, pre, emitted, bk>>

\* Next without its terminal case: on a nil state it goes round again.
NextEOFSpin ==
    /\ pc = "loop"
    /\ dequeue(items)[1] = <<>>
    /\ state = Nil
    /\ UNCHANGED vars

\* Next that puts the end token in the queue before it returns it.
NextEOFQueued ==
    /\ pc = "loop"
    /\ dequeue(items)[1] = <<>>
    /\ state = Nil
    /\ returned' = Note(Record(Item(ItemEOF, start, <<>>), "eof"))
    /\ items' = enqueue(items, Item(ItemEOF, start, <<>>))
    /\ pc' = "idle"
    /\ UNCHANGED <<input, start, pos, width, last, state, fuel, runs,
                   op, ret, pre, emitted, delivered, bk>>

NextEOF ==
    /\ pc = "loop"
    /\ dequeue(items)[1] = <<>>
    /\ state = Nil
    /\ returned' = Note(Record(Item(ItemEOF, start, <<>>), "eof"))
    /\ pc' = "idle"
    /\ UNCHANGED <<input, start, pos, width, last, state, items, fuel, runs,
                   op, ret, pre, emitted, delivered, bk>>

\* Next that runs the state function without looking at the state first.
NextInvokeUnchecked ==
    /\ pc = "loop"
    /\ dequeue(items)[1] = <<>>
    /\ pc' = "fn"
    /\ runs' = IF runs < MaxRuns THEN runs + 1 ELSE runs
    /\ UNCHANGED <<input, start, pos, width, last, state, items, fuel,
                   op, ret, pre, emitted, delivered, returned, bk>>

NextInvoke ==
    /\ pc = "loop"
    /\ dequeue(items)[1] = <<>>
    /\ state # Nil
    /\ pc' = "fn"
    /\ runs' = IF runs < MaxRuns THEN runs + 1 ELSE runs
    /\ UNCHANGED <<input, start, pos, width, last, state, items, fuel,
                   op, ret, pre, emitted, delivered, returned, bk>>

\* ----------------------------------------------------- specification
\* New as the ring-buffer revision has it: no check of the start state.
NewUnchecked(st, in) == [panic |-> FALSE, input |-> in, state |-> st]

New(st, in) ==
    IF st = Nil
    THEN [panic |-> TRUE, input |-> <<>>, state |-> Nil]
    ELSE [panic |-> FALSE, input |-> in, state |-> st]

Init ==
    \E st \in StateFns \cup {Nil}, in \in Inputs :
      LET n == New(st, in) IN
        /\ input = n.input
        /\ state = n.state
        /\ pc = IF n.panic THEN "panic" ELSE "idle"
        /\ start = 0 /\ pos = 0 /\ width = 0 /\ last = 0
        /\ items = <<>>
        /\ fuel = MaxOps /\ runs = 0
        /\ op = [name |-> "New", arg |-> st]
        /\ ret = NoRet
        /\ pre = NoCall
        /\ emitted = <<>> /\ delivered = <<>> /\ returned = <<>>
        /\ bk = "clear"

Next ==
    \/ CallNext \/ NextDequeue \/ NextEOF \/ NextInvoke
    \/ Advance \/ Backup \/ Peek \/ Ignore
    \/ Accept \/ AcceptRange \/ AcceptRun \/ AcceptRunRange \/ AcceptString
    \/ Emit \/ Errorf \/ Return

Spec == Init /\ [][Next]_vars

\* ---- The scan of a well-formed state machine.  The caller's obligation:
\* a state function that enqueued nothing returns a non-nil state only
\* while fewer than MaxRuns state functions have run in this Next call, so
\* that within MaxRuns invocations a token is enqueued or the state is nil.
ObligedReturn ==
    Return /\ ((state' # Nil /\ items = <<>>) => runs < MaxRuns)

LiveRun ==
    \/ NextDequeue \/ NextEOF \/ NextInvoke
    \/ Advance \/ Backup \/ Peek \/ Ignore
    \/ Accept \/ AcceptRange \/ AcceptRun \/ AcceptRunRange \/ AcceptString
    \/ Emit \/ Errorf \/ ObligedReturn

LiveNext == CallNext \/ LiveRun

\* Code that has been called keeps running: Next's loop and the state
\* function it invoked take their next step.  The parser need not call Next.
LiveInit == Init /\ Len(input) <= LiveMaxLen

LiveSpec == LiveInit /\ [][LiveNext]_vars /\ WF_vars(LiveRun)

\* ------------------------------------------------------------- claims
\* What Advance reads at offset p of the input.
DecodeAt(p) ==
    IF p >= Len(input) THEN <<EOF, 0>>
    ELSE DecodeRuneInString(Slice(p, Len(input)))

\* The runes whose encodings the inputs can hold.
KnownRunes == {4, 46, 233, 65533}

\* input[p:] begins with the encoding of a rune.
WellFormedAt(p) ==
    \E r \in KnownRunes : HasPrefix(Slice(p, Len(input)), EncodeRune(r))

\* A scanner call of this name has just returned.
Called(name) == op.name = name /\ pc = "fn"

LastReturned == returned[Len(returned)]

\* ------------------------------------------- the example state function
\* ExampleLexer_advance of example_test.go: one state function, the start
\* state, which reads one rune and emits one token.  Its position is read
\* off the last call (op): none yet, Advance, or Emit/Errorf.
itemOK == 0

\* "unexpected end-of-input"
MsgEOF ==
    <<117, 110, 101, 120, 112, 101, 99, 116, 101, 100, 32, 101, 110, 100,
      45, 111, 102, 45, 105, 110, 112, 117, 116>>

\* "invalid utf-8 rune"
MsgInvalid ==
    <<105, 110, 118, 97, 108, 105, 100, 32, 117, 116, 102, 45, 56, 32, 114,
      117, 110, 101>>

\* "unexpected rune %q"
MsgRune ==
    <<117, 110, 101, 120, 112, 101, 99, 116, 101, 100, 32, 114, 117, 110,
      101, 32, 37, 113>>

\* The pair Advance returns at the end of the input.
IsEOF(c, n) == c = EOF /\ n = 0

\* The pair Advance returns at a malformed byte.
IsInvalid(c, n) == c = RuneError /\ n = 1

ExampleStart == "lexA"

\* c, n := lex.Advance()
ExampleAdvance == op.name = "New" /\ Advance

ExampleErrorf(m) == Push("Errorf", m, TRUE, ErrorItem(m), start, FnRet(Nil))

ExampleErrorEOF ==
    /\ Called("Advance")
    /\ IsEOF(ret.c, ret.width)
    /\ ExampleErrorf([format |-> MsgEOF, args |-> <<>>])

ExampleErrorInvalid ==
    /\ Called("Advance")
    /\ ~IsEOF(ret.c, ret.width) /\ IsInvalid(ret.c, ret.width)
    /\ ExampleErrorf([format |-> MsgInvalid, args |-> <<>>])

ExampleEmit ==
    /\ Called("Advance")
    /\ ~IsEOF(ret.c, ret.width) /\ ~IsInvalid(ret.c, ret.width)
    /\ ret.c = 46
    /\ Push("Emit", itemOK, SliceOK(start, pos), EmitItem(itemOK), pos, NoRet)

ExampleErrorRune ==
    /\ Called("Advance")
    /\ ~IsEOF(ret.c, ret.width) /\ ~IsInvalid(ret.c, ret.width)
    /\ ret.c # 46
    /\ ExampleErrorf([format |-> MsgRune, args |-> <<ret.c>>])

\* return nil, after Emit; return lex.Errorf(...), the nil Errorf returned
ExampleReturn ==
    /\ (Called("Emit") \/ Called("Errorf"))
    /\ Return /\ state' = Nil

ExampleInit == Init /\ state = ExampleStart

ExampleNext ==
    \/ CallNext \/ NextDequeue \/ NextEOF \/ NextInvoke
    \/ ExampleAdvance
    \/ ExampleErrorEOF \/ ExampleErrorInvalid \/ ExampleEmit \/ ExampleErrorRune
    \/ ExampleReturn

ExampleSpec == ExampleInit /\ [][ExampleNext]_vars

\* ------------------------------------------------- two callers of Next
\* Two goroutines call Next on one Lexer, with the example state function,
\* and no synchronization.  Here pc maps each caller to its position and
\* ret to its local variables; runs counts the invocations of the scan.
\* Every step is one statement of Next or one call of the state function:
\* the interleavings of whole statements are among the outcomes of the
\* race, and the state the claim describes is reached already by them.
\*   "idle"  not in Next            "deq"    at l.dequeue()
\*   "check" at l.state == nil      "read"   at l.state(l), reading l.state
\*   "adv"   at lex.Advance()       "branch" at the ifs of the state function
\*   "emit2" in Emit, at l.start = l.pos
\*   "ret"   at l.state = <returned value>
Callers == {1, 2}

NoLocals == [fn |-> Nil, c |-> 0, n |-> 0, next |-> Nil, raced |-> FALSE]

\* The positions between the read of l.state and the write of the result.
Invoked == {"adv", "branch", "emit2", "ret"}

OtherInvoked(t) == \E u \in Callers \ {t} : pc[u] \in Invoked

\* A panic in one goroutine ends the program.
Alive == \A u \in Callers : pc[u] # "panic"

ConcStep(t, to, l, st, q, loc, em, del, rn) ==
    /\ pc' = [pc EXCEPT ![t] = to]
    /\ start' = l.start /\ pos' = l.pos /\ width' = l.width /\ last' = l.last
    /\ state' = st
    /\ items' = q
    /\ ret' = [ret EXCEPT ![t] = loc]
    /\ emitted' = em
    /\ delivered' = del
    /\ runs' = rn
    /\ UNCHANGED <<input, fuel, op, pre, returned, bk>>

ConcCall(t) ==
    /\ Alive /\ pc[t] = "idle"
    /\ ConcStep(t, "deq", L, state, items, ret[t], emitted, delivered, runs)

\* if head := l.dequeue(); head != nil { return head }
ConcDequeue(t) ==
    /\ Alive /\ pc[t] = "deq"
    /\ IF dequeue(items)[1] # <<>>
       THEN ConcStep(t, "idle", L, state, dequeue(items)[2], ret[t], emitted,
                     Append(delivered, dequeue(items)[1][1]), runs)
       ELSE ConcStep(t, "check", L, state, items, ret[t], emitted, delivered, runs)

\* if l.state == nil { return &Item{ItemEOF, l.start, ""} }
ConcCheck(t) ==
    /\ Alive /\ pc[t] = "check"
    /\ ConcStep(t, IF state = Nil THEN "idle" ELSE "read",
                L, state, items, ret[t], emitted, delivered, runs)

\* l.state(l): the state is read again and called; a nil function panics.
ConcInvoke(t) ==
    /\ Alive /\ pc[t] = "read"
    /\ IF state = Nil
       THEN ConcStep(t, "panic", L, state, items, ret[t], emitted, delivered, runs)
       ELSE ConcStep(t, "adv", L, state, items,
                     [NoLocals EXCEPT !.fn = state, !.raced = OtherInvoked(t)],
                     emitted, delivered, runs + 1)

\* c, n := lex.Advance()
ConcAdvance(t) ==
    /\ Alive /\ pc[t] = "adv"
    /\ LET a == DoAdvance(L)
       IN IF a.panic
          THEN ConcStep(t, "panic", a.l, state, items, ret[t], emitted, delivered, runs)
          ELSE ConcStep(t, "branch", a.l, state, items,
                        [ret[t] EXCEPT !.c = a.ret.c, !.n = a.ret.width],
                        emitted, delivered, runs)

\* The message of the state function's Errorf for the pair (c, n).
ExampleMessage(c, n) ==
    IF IsEOF(c, n) THEN [format |-> MsgEOF, args |-> <<>>]
    ELSE IF IsInvalid(c, n) THEN [format |-> MsgInvalid, args |-> <<>>]
    ELSE [format |-> MsgRune, args |-> <<c>>]

\* return lex.Errorf(...)
ConcErrorf(t) ==
    /\ Alive /\ pc[t] = "branch"
    /\ IsEOF(ret[t].c, ret[t].n) \/ IsInvalid(ret[t].c, ret[t].n) \/ ret[t].c # 46
    /\ LET i == ErrorItem(ExampleMessage(ret[t].c, ret[t].n))
       IN ConcStep(t, "ret", L, state, enqueue(items, i),
                   [ret[t] EXCEPT !.next = Nil], Append(emitted, i), delivered, runs)

\* lex.Emit(itemOK), up to the enqueue
ConcEmitEnqueue(t) ==
    /\ Alive /\ pc[t] = "branch"
    /\ ~IsEOF(ret[t].c, ret[t].n) /\ ~IsInvalid(ret[t].c, ret[t].n) /\ ret[t].c = 46
    /\ IF SliceOK(start, pos)
       THEN ConcStep(t, "emit2", L, state, enqueue(items, EmitItem(itemOK)), ret[t],
                     Append(emitted, EmitItem(itemOK)), delivered, runs)
       ELSE ConcStep(t, "panic", L, state, items, ret[t], emitted, delivered, runs)

\* l.start = l.pos, and the state function's return nil
ConcEmitStart(t) ==
    /\ Alive /\ pc[t] = "emit2"
    /\ ConcStep(t, "ret", DoIgnore(L).l, state, items,
                [ret[t] EXCEPT !.next = Nil], emitted, delivered, runs)

\* Next that calls the state function and drops what it returns.
ConcReturnDropped(t) ==
    /\ Alive /\ pc[t] = "ret"
    /\ ConcStep(t, "deq", L, state, items, ret[t], emitted, delivered, runs)

\* l.state = <the value the state function returned>, and round the loop
ConcReturn(t) ==
    /\ Alive /\ pc[t] = "ret"
    /\ ConcStep(t, "deq", L, ret[t].next, items, ret[t], emitted, delivered, runs)

\* lexer.New(start, input), and two callers yet to call Next
ConcInit ==
    \E in \in Inputs :
      LET n == New(ExampleStart, in) IN
        /\ input = n.input
        /\ state = n.state
        /\ pc = [t \in Callers |-> "idle"]
        /\ ret = [t \in Callers |-> NoLocals]
        /\ start = 0 /\ pos = 0 /\ width = 0 /\ last = 0
        /\ items = <<>>
        /\ fuel = MaxOps /\ runs = 0
        /\ op = [name |-> "New", arg |-> ExampleStart]
        /\ pre = NoCall
        /\ emitted = <<>> /\ delivered = <<>> /\ returned = <<>>
        /\ bk = "clear"

ConcNext ==
    \E t \in Callers :
        \/ ConcCall(t) \/ ConcDequeue(t) \/ ConcCheck(t) \/ ConcInvoke(t)
        \/ ConcAdvance(t) \/ ConcErrorf(t) \/ ConcEmitEnqueue(t) \/ ConcEmitStart(t)
        \/ ConcReturn(t)

ConcSpec == ConcInit /\ [][ConcNext]_vars

\* C1: the tokens Next has handed out from the queue, followed by the
\* tokens still queued, are the tokens Emit and Errorf enqueued, in the
\* order of those calls: each is delivered once and in call order.
C1_FifoDelivery == delivered \o items = emitted

C1_Witness ==
    /\ Len(delivered) = 2
    /\ delivered[1] # delivered[2]
    /\ delivered[1].Pos < delivered[2].Pos

C3_OffsetsInRange ==
    bk # "broken" => (0 <= start /\ start <= pos /\ pos <= Len(input))

\* C4: with a state machine that within finitely many invocations enqueues
\* a token or returns nil, every Next call comes to an end (it returns,
\* unless a state function panics or never returns); and Next invokes a
\* state function again only when the queue is empty and the state is not
\* nil, so it can fail to return only by running state functions that
\* enqueue nothing and return non-nil states.
C4_NextReturns ==
    /\ (pc = "loop") ~> (pc \in {"idle", "panic", "hang"})
    /\ [][(pc = "loop" /\ pc' = "fn") => (items = <<>> /\ state # Nil)]_vars

C4_Witness ==
    /\ pc = "idle" /\ Len(returned) > 0
    /\ LastReturned.runs = MaxRuns
    /\ LastReturned.src = "queue"

\* A state function has returned the result of the Errorf it called last.
ErrorfReturned == op.name = "Return" /\ op.errorf /\ op.arg = Nil

C6_EmitFrame ==
    Called("Emit") =>
        /\ items = Append(pre.items,
                          Item(op.arg, pre.start, SubSeq(input, pre.start + 1, pre.pos)))
        /\ start = pre.pos
        /\ pos = pre.pos /\ width = pre.width /\ last = pre.last
        /\ state = pre.state

C6_Witness ==
    /\ Called("Emit")
    /\ pre.items # <<>> /\ pre.start < pre.pos
    /\ items[Len(items)].Value # <<>>

\* C7: Accept returns true and moves pos forward by the width of the rune
\* read if the rune is in the set, and otherwise returns false and leaves
\* pos where it was (AcceptRange likewise, for a range table).
C7_AcceptMovesIffMember ==
    /\ Called("Accept") =>
         IF IndexRune(op.arg, DecodeAt(pre.pos)[1])
         THEN ret = OkRet(TRUE) /\ pos = pre.pos + DecodeAt(pre.pos)[2]
         ELSE ret = OkRet(FALSE) /\ pos = pre.pos
    /\ Called("AcceptRange") =>
         IF UnicodeIs(op.arg, DecodeAt(pre.pos)[1])
         THEN ret = OkRet(TRUE) /\ pos = pre.pos + DecodeAt(pre.pos)[2]
         ELSE ret = OkRet(FALSE) /\ pos = pre.pos

\* C8: Peek leaves pos where it was and returns the rune and width found
\* there, so that Peek after Peek returns the same pair.
C8_PeekLeavesPos ==
    Called("Peek") => (pos = pre.pos /\ ret = RuneRet(DecodeAt(pre.pos)))

\* C9: at a malformed byte Advance returns (RuneError, 1) and leaves pos
\* where it was, so the next Advance finds the same byte again.
C9_AdvanceAtMalformed ==
    (Called("Advance") /\ pre.pos >= 0 /\ pre.pos < Len(input) /\ ~WellFormedAt(pre.pos)) =>
        /\ ret = RuneRet(<<RuneError, 1>>)
        /\ pos = pre.pos
        /\ last = RuneError /\ width = 1

C9_Witness ==
    /\ Called("Advance") /\ ~WellFormedAt(pre.pos) /\ pre.pos < Len(input)
    /\ pre.last = RuneError /\ pre.width = 1 /\ pre.pos = 1
    /\ ret = RuneRet(<<RuneError, 1>>)

\* C10: Advance returns width 0 exactly when pos >= len(input); it then
\* returns EOF and leaves pos and start alone with width 0; a 0x04 byte of
\* the input comes back with width 1.
C10_WidthZeroIffAtEnd ==
    Called("Advance") =>
        /\ (ret.width = 0) <=> (pre.pos >= Len(input))
        /\ pre.pos >= Len(input) =>
              (ret = RuneRet(<<EOF, 0>>) /\ pos = pre.pos /\ start = pre.start /\ width = 0)
        /\ (pre.pos < Len(input) /\ input[pre.pos + 1] = 4) => ret = RuneRet(<<EOF, 1>>)

C10_Witness ==
    /\ Called("Advance") /\ ret = RuneRet(<<EOF, 0>>)
    /\ pre.width = 1 /\ pre.last = EOF /\ pre.pos = Len(input)
    /\ width = 0

\* C11: a Backup called directly after an Advance that decoded a well-formed
\* rune (not the end of the input, not a malformed byte) puts pos back to
\* the value it had before that Advance and leaves start alone.
C11_BackupUndoesAdvance ==
    [][(/\ Called("Advance")
        /\ ret.width > 0 /\ ret # RuneRet(<<RuneError, 1>>)
        /\ op'.name = "Backup")
       => (pc' = "fn" /\ pos' = pre.pos /\ start' = start /\ start' = pre.start)]_vars

C11_Witness ==
    /\ Called("Backup") /\ op.arg = "Advance"
    /\ pre.last = 233 /\ pre.width = 2 /\ pre.pos = 2
    /\ pos = 0 /\ start = 0

\* input[p:] is a sequence of well-formed runes.
RECURSIVE WellFormedFrom(_)
WellFormedFrom(p) ==
    IF p >= Len(input) THEN TRUE
    ELSE IF DecodeAt(p) = <<RuneError, 1>> THEN FALSE
    ELSE WellFormedFrom(p + DecodeAt(p)[2])

\* The longest run of runes of valid that input[p:] begins with, as
\* <<number of runes, number of bytes>>; the end of the input is no rune.
RECURSIVE RunAt(_, _)
RunAt(p, valid) ==
    IF p >= Len(input) \/ ~IndexRune(valid, DecodeAt(p)[1]) THEN <<0, 0>>
    ELSE LET w == DecodeAt(p)[2]
             r == RunAt(p + w, valid)
         IN <<r[1] + 1, r[2] + w>>

\* C12: on well-formed input, with pos at the start of a rune or at the
\* end, AcceptRun(valid) returns the number of runes of the longest run of
\* members of valid that begins at pos, and leaves pos behind that run.
C12_AcceptRunCount ==
    (/\ op.name = "AcceptRun"
     /\ WellFormedFrom(0) /\ pre.pos >= 0 /\ WellFormedFrom(pre.pos)) =>
        /\ pc = "fn"
        /\ ret = CountRet(RunAt(pre.pos, op.arg)[1])
        /\ pos = pre.pos + RunAt(pre.pos, op.arg)[2]

\* C13: AcceptRun comes to an end for every input, position and set.
C13_AcceptRunTerminates == op.name = "AcceptRun" => pc # "hang"

\* C14: from a pos within the input, AcceptString(s) returns true and adds
\* len(s) to pos when the bytes input[pos : pos+len(s)] exist and equal s
\* byte for byte; otherwise it returns false and leaves pos; start stays.
C14_AcceptStringIffPrefix ==
    (op.name = "AcceptString" /\ 0 <= pre.pos /\ pre.pos <= Len(input)) =>
        /\ pc = "fn"
        /\ IF /\ pre.pos + Len(op.arg) <= Len(input)
              /\ \A i \in 1..Len(op.arg) : input[pre.pos + i] = op.arg[i]
           THEN ret = OkRet(TRUE) /\ pos = pre.pos + Len(op.arg)
           ELSE ret = OkRet(FALSE) /\ pos = pre.pos
        /\ start = pre.start

C14_Witness ==
    /\ Called("AcceptString") /\ ret = OkRet(TRUE)
    /\ op.arg = <<46, 4>> /\ pre.pos = 0 /\ pos = Len(input)

C16_NewNilPanics ==
    op.name = "New" =>
        IF op.arg = Nil
        THEN pc = "panic" /\ ~ENABLED Next
        ELSE /\ pc \in {"idle", "loop", "fn"}
             /\ start = 0 /\ pos = 0 /\ width = 0 /\ items = <<>>
             /\ state = op.arg
             /\ pc = "loop" => ENABLED NextInvoke
             /\ pc = "fn" => (runs = 1 /\ returned = <<>>)

C16_Witness == op.name = "New" /\ op.arg = Nil /\ pc = "panic"

C18_TwiceOnlyByRace ==
    /\ Len(emitted) <= runs
    /\ runs >= 2 =>
         /\ \E t \in Callers : ret[t].raced
         /\ \A t \in Callers : ret[t].fn = ExampleStart

C18_Witness ==
    /\ runs = 2 /\ ret[1].fn = ret[2].fn
    /\ Len(emitted) = 2 /\ emitted[1] = emitted[2]
    /\ emitted[1].Type = itemOK /\ emitted[1].Value # <<>>
    /\ delivered = emitted

\* ---- Scans of well-formed input whose state functions call only
\* Advance, Peek, Accept, AcceptRun, AcceptString and Emit, up to ScanOps
\* calls in all.
ScanInit ==
    \E st \in StateFns, in \in Inputs :
      LET n == New(st, in) IN
        /\ input = n.input
        /\ WellFormedFrom(0)
        /\ state = n.state
        /\ pc = "idle"
        /\ start = 0 /\ pos = 0 /\ width = 0 /\ last = 0
        /\ items = <<>>
        /\ fuel = ScanOps /\ runs = 0
        /\ op = [name |-> "New", arg |-> st]
        /\ ret = NoRet
        /\ pre = NoCall
        /\ emitted = <<>> /\ delivered = <<>> /\ returned = <<>>
        /\ bk = "clear"

ScanNext ==
    \/ CallNext \/ NextDequeue \/ NextEOF \/ NextInvoke
    \/ Advance \/ Peek \/ Accept \/ AcceptRun \/ AcceptString
    \/ Emit \/ Return

ScanSpec == ScanInit /\ [][ScanNext]_vars

\* The texts of a sequence of tokens, one after the other.
RECURSIVE Concat(_)
Concat(toks) ==
    IF toks = <<>> THEN <<>> ELSE Head(toks).Value \o Concat(Tail(toks))

\* C19: in such a scan the texts of the tokens Emit enqueued, in order,
\* make up input[0:start], and each token's position is the summed length
\* of the texts before it: lexemes neither overlap nor skip input.
C19_LexemesTileInput ==
    /\ 0 <= start /\ start <= Len(input)
    /\ Concat(emitted) = SubSeq(input, 1, start)
    /\ \A i \in 1..Len(emitted) :
         emitted[i].Pos = Len(Concat(SubSeq(emitted, 1, i - 1)))

C19_Witness ==
    /\ Len(emitted) = 2
    /\ emitted[1].Value # <<>> /\ emitted[2].Value # <<>>
    /\ emitted[2].Pos = Len(emitted[1].Value)
    /\ start = Len(input)

\* C20: AcceptString, true or false, leaves last and width (and start, the
\* state and the queue) as they were, so that a Backup called directly
\* after an AcceptString that returned true moves pos back by the width of
\* the rune read before the AcceptString, not by len(s).
C20_AcceptStringKeepsLast ==
    [][/\ (fuel' < fuel /\ op'.name = "AcceptString" /\ pc' = "fn") =>
            /\ last' = last /\ width' = width /\ start' = start
            /\ state' = state /\ items' = items
            /\ <<last', width'>> = <<pre'.last, pre'.width>>
       /\ (Called("AcceptString") /\ ret = OkRet(TRUE) /\ op'.name = "Backup") =>
            /\ pos' = pos - pre.width
            /\ pos' = pre.pos + Len(op.arg) - pre.width]_vars

C20_Witness ==
    /\ Called("Backup") /\ op.arg = "AcceptString"
    /\ input = <<46, 4>> /\ pre.pos = 2 /\ pre.width = 1 /\ pre.last = 46
    /\ pos = 1

====
